---- MODULE Spec2Model ----
(***************************************************************************)
(* In-memory state calculator (InMemoryStateCalculatorV2): the state delta  *)
(* produced from a parent StateDelta and the write sets of a batch of       *)
(* transactions, the storage usage it carries, block validation, and the    *)
(* reconciliation of expected checkpoint hashes.                            *)
(***************************************************************************)
EXTENDS Integers, Sequences, FiniteSets, TLC

(* ------------------------------ bounds --------------------------------- *)

\* Highest transaction version a chain of calculations may reach.
MaxVersion == 2

\* Most transactions in one batch.
MaxTxns == 2

\* Width of the machine words (u64, usize, i64 hold 64 bits in the program;
\* the model checker's integers hold 32, so the width is scaled down: no
\* modelled quantity comes near the modulus except by wrapping around).
WordBits == 16

(* --------------------------- program constants ------------------------- *)

\* ShardedStateUpdates = [HashMap<StateKey, Option<StateValue>>; 16]
NumShards == 16

Shards == 0 .. (NumShards - 1)

Modulus == 2 ^ WordBits

(* ------------------------------ universe ------------------------------- *)

Keys == {"a", "b", "c"}

Values == {"v1", "v2"}

\* Option<StateValue>::None
NoneV == "None"

\* Option<Version>::None, Option<usize>::None
NoVersion == -1

NoIndex == -1

\* StateKey::get_shard_id: a stable function of the key; "a" and "b" share a shard.
GetShardId(k) == CASE k = "a" -> 3 [] k = "b" -> 3 [] OTHER -> 12

\* StateKey::size
KeySize(k) == CASE k = "a" -> 1 [] k = "b" -> 2 [] OTHER -> 4

\* StateValue::size
ValueSize(v) == CASE v = "v1" -> 1 [] OTHER -> 3

\* WriteOp: Creation(value), Modification(value), Deletion
Creation(v) == [kind |-> "Creation", value |-> v]

Modification(v) == [kind |-> "Modification", value |-> v]

Deletion == [kind |-> "Deletion", value |-> NoneV]

\* TransactionWrite::as_state_value: None for a deletion, Some(value) otherwise
AsStateValue(op) == IF op.kind = "Deletion" THEN NoneV ELSE op.value

\* One (StateKey, WriteOp) pair of a write set
W(k, op) == [key |-> k, op |-> op]

(* ------------------------------ hash maps ------------------------------ *)

\* HashMap::new()
EmptyMap == [k \in {} |-> NoneV]

\* HashMap::insert: the new value replaces the old one
MapInsert(m, k, v) == [x \in (DOMAIN m) \cup {k} |-> IF x = k THEN v ELSE m[x]]

\* HashMap::extend with the entries of d (keys of d are distinct): d wins
MapExtend(m, d) == [x \in (DOMAIN m) \cup (DOMAIN d) |-> IF x \in DOMAIN d THEN d[x] ELSE m[x]]

\* create_empty_sharded_state_updates
CreateEmptyShardedStateUpdates == [i \in Shards |-> EmptyMap]

(* --------------------------- storage usage ----------------------------- *)

\* StateStorageUsage::new_untracked
NewUntracked == [tracked |-> FALSE, items |-> 0, bytes |-> 0]

\* StateStorageUsage::new(items, bytes)
NewUsage(items, bytes) == [tracked |-> TRUE, items |-> items, bytes |-> bytes]

\* `x as usize` of a signed 64 bit x: two's complement, the value modulo 2^w
AsUsize(x) == x % Modulus

(* --------------------------- shard splitter ---------------------------- *)

\* A faulty variant: every pair goes to shard 0
InsertWriteShardZero(updates, w) ==
    [updates EXCEPT ![0] = MapInsert(@, w.key, AsStateValue(w.op))]

\* updates[state_key.get_shard_id()].insert(state_key.clone(), write_op.as_state_value())
InsertWrite(updates, w) ==
    [updates EXCEPT ![GetShardId(w.key)] = MapInsert(@, w.key, AsStateValue(w.op))]

RECURSIVE InsertWrites(_, _)
\* the for_each of get_sharded_state_updates over one write set, in order
InsertWrites(updates, ws) ==
    IF ws = <<>> THEN updates
    ELSE InsertWrites(InsertWrite(updates, Head(ws)), Tail(ws))

\* get_sharded_state_updates: one ShardedStateUpdates per output, in the outputs' order
GetShardedStateUpdates(write_sets) ==
    [t \in 1 .. Len(write_sets) |-> InsertWrites(CreateEmptyShardedStateUpdates, write_sets[t])]

(* ---------------------------- range merger ----------------------------- *)

RECURSIVE ExtendShard(_, _, _)
\* per_shard_update.extend(state_updates_vec.iter().flat_map(|hms| &hms[i])):
\* the maps of shard i in the transactions' order, later entries replacing earlier ones
ExtendShard(per_shard_update, state_updates_vec, i) ==
    IF state_updates_vec = <<>> THEN per_shard_update
    ELSE ExtendShard(MapExtend(per_shard_update, Head(state_updates_vec)[i]),
                     Tail(state_updates_vec), i)

\* calculate_updates
CalculateUpdates(state_updates_vec) ==
    [i \in Shards |-> ExtendShard(EmptyMap, state_updates_vec, i)]

(* --------------------------- usage accountant -------------------------- *)

\* add_to_delta's change to (items_delta, bytes_delta) for one entry (k, v);
\* state_cache is one shard of the read cache and holds k
AddToDelta(k, v, state_cache) ==
    LET key_size == KeySize(k)
        new_items == IF v # NoneV THEN 1 ELSE 0
        new_bytes == IF v # NoneV THEN key_size + ValueSize(v) ELSE 0
        old_v == state_cache[k]
        old_items == IF old_v # NoneV THEN 1 ELSE 0
        old_bytes == IF old_v # NoneV THEN key_size + ValueSize(old_v) ELSE 0
    IN  [items |-> new_items - old_items, bytes |-> new_bytes - old_bytes]

RECURSIVE SumDeltas(_, _, _)
\* the sum of add_to_delta over the entries of one map whose keys are in ks
SumDeltas(ks, m, state_cache) ==
    IF ks = {} THEN [items |-> 0, bytes |-> 0]
    ELSE LET k == CHOOSE x \in ks : TRUE
             d == AddToDelta(k, m[k], state_cache)
             r == SumDeltas(ks \ {k}, m, state_cache)
         IN  [items |-> d.items + r.items, bytes |-> d.bytes + r.bytes]

\* A faulty variant: the overwrite rule dropped: every entry before the checkpoint is counted
CountedBeforeAll(before, after, i) == DOMAIN before[i]

\* The entries of shard i that reach add_to_delta: every entry after the checkpoint
\* and the entries before it whose key is not written after it
CountedBefore(before, after, i) == {k \in DOMAIN before[i] : k \notin DOMAIN after[i]}

\* state_cache.get(k).expect("Must cache read") fails for some counted entry
MissingRead(sharded_state_cache, before, after) ==
    \E i \in Shards :
        \E k \in CountedBefore(before, after, i) \cup DOMAIN after[i] :
            k \notin DOMAIN sharded_state_cache[i]

\* the map closure of calculate_usage for shard i
ShardDelta(sharded_state_cache, before, after, i) ==
    LET b == SumDeltas(CountedBefore(before, after, i), before[i], sharded_state_cache[i])
        a == SumDeltas(DOMAIN after[i], after[i], sharded_state_cache[i])
    IN  [items |-> b.items + a.items, bytes |-> b.bytes + a.bytes]

RECURSIVE ReduceDeltas(_, _, _, _)
\* the reduce of calculate_usage: the sum of the shards' deltas
ReduceDeltas(shards, sharded_state_cache, before, after) ==
    IF shards = {} THEN [items |-> 0, bytes |-> 0]
    ELSE LET i == CHOOSE x \in shards : TRUE
             d == ShardDelta(sharded_state_cache, before, after, i)
             r == ReduceDeltas(shards \ {i}, sharded_state_cache, before, after)
         IN  [items |-> d.items + r.items, bytes |-> d.bytes + r.bytes]

\* calculate_usage, when no read is missing
CalculateUsage(old_usage, sharded_state_cache, before, after) ==
    IF ~old_usage.tracked THEN NewUntracked
    ELSE LET delta == ReduceDeltas(Shards, sharded_state_cache, before, after)
         IN  NewUsage(AsUsize(old_usage.items + delta.items),
                      AsUsize(old_usage.bytes + delta.bytes))

\* A faulty variant: the read cache is consulted even when usage is untracked
UsagePanicsUntracked(old_usage, sharded_state_cache, before, after) ==
    MissingRead(sharded_state_cache, before, after)

\* calculate_usage panics: usage is tracked and a counted entry was never read
UsagePanics(old_usage, sharded_state_cache, before, after) ==
    old_usage.tracked /\ MissingRead(sharded_state_cache, before, after)

(* ------------------------- sparse merkle tree -------------------------- *)

\* A tree is its key-value content (a map from the keys present to their values) and
\* the usage it carries.
Tree(kv, usage) == [kv |-> kv, usage |-> usage]

\* SparseMerkleTree::root_hash: a digest of the content alone, one per content
RootHash(tree) == {<<k, tree.kv[k]>> : k \in DOMAIN tree.kv}

RECURSIVE FlattenShards(_, _)
\* updates.iter().flatten(): the entries of the shards 0 .. i, one after the other
FlattenShards(updates, i) ==
    IF i < 0 THEN EmptyMap ELSE MapExtend(FlattenShards(updates, i - 1), updates[i])

\* FrozenSparseMerkleTree::batch_update: Some(v) sets a key, None removes it;
\* the new tree carries the usage given
BatchUpdate(tree, smt_updates, usage) ==
    LET removed == {k \in DOMAIN smt_updates : smt_updates[k] = NoneV}
        written == {k \in DOMAIN smt_updates : smt_updates[k] # NoneV}
    IN  Tree([k \in ((DOMAIN tree.kv) \cup written) \ removed |->
                 IF k \in written THEN smt_updates[k] ELSE tree.kv[k]],
             usage)

\* make_checkpoint
MakeCheckpoint(latest_checkpoint, updates, usage) ==
    BatchUpdate(latest_checkpoint, FlattenShards(updates, NumShards - 1), usage)

(* ------------------------------ state delta ---------------------------- *)

\* StateDelta::new
StateDelta(base, base_version, current, current_version, updates_since_base) ==
    [base |-> base, base_version |-> base_version,
     current |-> current, current_version |-> current_version,
     updates_since_base |-> updates_since_base]

\* Option<HashValue>
NoHash == [some |-> FALSE, h |-> {}]

SomeHash(h) == [some |-> TRUE, h |-> h]

\* Option<ShardedStateUpdates>
NoUpdates == [some |-> FALSE, v |-> CreateEmptyShardedStateUpdates]

SomeUpdates(u) == [some |-> TRUE, v |-> u]

\* Option<Vec<Option<HashValue>>>, the known_state_checkpoints argument
NoKnown == [some |-> FALSE, v |-> <<>>]

SomeKnown(v) == [some |-> TRUE, v |-> v]

\* A call that returns an error or panics returns no StateCheckpointOutput.
NoOutput(status, parent_state) ==
    [status |-> status,
     parent_state |-> parent_state,
     result_state |-> parent_state,
     updates_before_last_checkpoint |-> NoUpdates,
     state_updates_vec |-> <<>>,
     state_checkpoint_hashes |-> <<>>]

\* StateCheckpointOutput::new
StateCheckpointOutput(parent_state, result_state, updates_before_last_checkpoint, state_updates_vec, state_checkpoint_hashes) ==
    [status |-> "Ok",
     parent_state |-> parent_state,
     result_state |-> result_state,
     updates_before_last_checkpoint |-> updates_before_last_checkpoint,
     state_updates_vec |-> state_updates_vec,
     state_checkpoint_hashes |-> state_checkpoint_hashes]

(* ------------------------------ orchestrator --------------------------- *)

\* parent_state.current_version.map_or(0, |v| v + 1), before it is cut to the word
FirstVersionRaw(parent_state) ==
    IF parent_state.current_version = NoVersion THEN 0
    ELSE parent_state.current_version + 1

FirstVersion(parent_state) == FirstVersionRaw(parent_state) % Modulus

\* (updates_before_last_checkpoint, updates_after_last_checkpoint) of calculate_impl
UpdatesBeforeLastCheckpoint(state_updates_vec, last_checkpoint_index) ==
    IF last_checkpoint_index # NoIndex
    THEN CalculateUpdates(SubSeq(state_updates_vec, 1, last_checkpoint_index + 1))
    ELSE CreateEmptyShardedStateUpdates

UpdatesAfterLastCheckpoint(state_updates_vec, last_checkpoint_index) ==
    IF last_checkpoint_index # NoIndex
    THEN CalculateUpdates(SubSeq(state_updates_vec, last_checkpoint_index + 2,
                                 Len(state_updates_vec)))
    ELSE CalculateUpdates(state_updates_vec)

\* A faulty variant: without a checkpoint the base becomes the parent's current tree
LatestCheckpointFromCurrent(parent_state, before, usage, last_checkpoint_index, num_txns) ==
    IF last_checkpoint_index # NoIndex
    THEN MakeCheckpoint(parent_state.current, before,
                        IF last_checkpoint_index = num_txns - 1 THEN usage ELSE NewUntracked)
    ELSE parent_state.current

\* latest_checkpoint of calculate_impl
LatestCheckpoint(parent_state, before, usage, last_checkpoint_index, num_txns) ==
    IF last_checkpoint_index # NoIndex
    THEN MakeCheckpoint(parent_state.current, before,
                        IF last_checkpoint_index = num_txns - 1 THEN usage ELSE NewUntracked)
    ELSE parent_state.base

\* state_checkpoint_hashes of calculate_impl once the last checkpoint's hash is known
ReconcileHashes(hashes, last_checkpoint_index, root_hash) ==
    IF last_checkpoint_index # NoIndex /\ ~hashes[last_checkpoint_index + 1].some
    THEN [hashes EXCEPT ![last_checkpoint_index + 1] = SomeHash(root_hash)]
    ELSE hashes

\* A faulty variant: the known hash of the last checkpoint is not compared
HashMismatchNever(hashes, last_checkpoint_index, root_hash) == FALSE

\* ensure!(h == latest_checkpoint.root_hash()) fails: the hash known for the last
\* checkpoint is not the one computed
HashMismatch(hashes, last_checkpoint_index, root_hash) ==
    /\ last_checkpoint_index # NoIndex
    /\ hashes[last_checkpoint_index + 1].some
    /\ hashes[last_checkpoint_index + 1].h # root_hash

\* A faulty variant: the parent's pending updates are carried over a checkpoint
UpdatesSinceCarried(parent_state, after, last_checkpoint_index) ==
    [i \in Shards |-> MapExtend(parent_state.updates_since_base[i], after[i])]

\* A faulty variant: the parent's pending updates are dropped without a checkpoint
UpdatesSinceBatchOnly(parent_state, after, last_checkpoint_index) == after

\* updates_since_latest_checkpoint of calculate_impl
UpdatesSinceLatestCheckpoint(parent_state, after, last_checkpoint_index) ==
    IF last_checkpoint_index # NoIndex THEN after
    ELSE [i \in Shards |-> MapExtend(parent_state.updates_since_base[i], after[i])]

\* calculate_impl. checked: the build panics on integer overflow; otherwise it wraps.
CalculateImpl(parent_state, sharded_state_cache, state_updates_vec, last_checkpoint_index, is_block, known_state_checkpoints, checked) ==
    LET has == last_checkpoint_index # NoIndex
        before == UpdatesBeforeLastCheckpoint(state_updates_vec, last_checkpoint_index)
        after == UpdatesAfterLastCheckpoint(state_updates_vec, last_checkpoint_index)
        num_txns == Len(state_updates_vec)
        usage == CalculateUsage(parent_state.current.usage, sharded_state_cache, before, after)
        first_version == FirstVersion(parent_state)
        latest_checkpoint ==
            LatestCheckpoint(parent_state, before, usage, last_checkpoint_index, num_txns)
        hashes == IF known_state_checkpoints.some THEN known_state_checkpoints.v
                  ELSE [i \in 1 .. num_txns |-> NoHash]
        latest_checkpoint_version ==
            IF has THEN (first_version + last_checkpoint_index) % Modulus
            ELSE parent_state.base_version
        \* first_version + num_txns as u64 - 1, left to right
        sum == first_version + num_txns
        current_version == ((sum % Modulus) - 1) % Modulus
        last_is_checkpoint == has /\ last_checkpoint_index = num_txns - 1
        current_tree ==
            IF last_is_checkpoint THEN latest_checkpoint
            ELSE MakeCheckpoint(IF has THEN latest_checkpoint ELSE parent_state.current,
                                after, usage)
        result_state ==
            StateDelta(latest_checkpoint, latest_checkpoint_version, current_tree,
                       current_version,
                       UpdatesSinceLatestCheckpoint(parent_state, after, last_checkpoint_index))
    IN  IF UsagePanics(parent_state.current.usage, sharded_state_cache, before, after)
        THEN NoOutput("MissingRead", parent_state)
        ELSE IF checked /\ FirstVersionRaw(parent_state) >= Modulus
        THEN NoOutput("ArithmeticOverflow", parent_state)
        ELSE IF Len(hashes) # num_txns
        THEN NoOutput("HashCountMismatch", parent_state)
        ELSE IF HashMismatch(hashes, last_checkpoint_index, RootHash(latest_checkpoint))
        THEN NoOutput("CheckpointMismatch", parent_state)
        ELSE IF checked /\ (sum >= Modulus \/ sum % Modulus = 0)
        THEN NoOutput("ArithmeticOverflow", parent_state)
        \* num_txns - 1 on a usize in `last_checkpoint_index == Some(num_txns - 1)`
        ELSE IF checked /\ num_txns = 0
        THEN NoOutput("ArithmeticOverflow", parent_state)
        ELSE IF ~last_is_checkpoint /\ is_block
        THEN NoOutput("InvalidBlock", parent_state)
        ELSE StateCheckpointOutput(
                parent_state, result_state,
                IF has THEN SomeUpdates(before) ELSE NoUpdates,
                state_updates_vec,
                ReconcileHashes(hashes, last_checkpoint_index, RootHash(latest_checkpoint)))

\* TransactionsWithOutput::get_last_checkpoint_index: the last transaction that
\* needs a checkpoint, if any (0-based)
GetLastCheckpointIndex(to_commit) ==
    LET at == {i \in 1 .. Len(to_commit) : to_commit[i].need_checkpoint}
    IN  IF at = {} THEN NoIndex ELSE (CHOOSE i \in at : \A j \in at : j <= i) - 1

\* A faulty variant: the parent's versions are not compared
ValidateInputForBlockAnyParent(base, to_commit) ==
    LET num_txns == Len(to_commit)
    IN  /\ num_txns # 0
        /\ \A i \in Shards : base.updates_since_base[i] = EmptyMap
        /\ \A i \in 0 .. (num_txns - 1) :
              to_commit[i + 1].need_checkpoint # (i # num_txns - 1)

\* validate_input_for_block succeeds
ValidateInputForBlock(base, to_commit) ==
    LET num_txns == Len(to_commit)
    IN  /\ num_txns # 0
        /\ base.base_version = base.current_version
        /\ \A i \in Shards : base.updates_since_base[i] = EmptyMap
        /\ \A i \in 0 .. (num_txns - 1) :
              to_commit[i + 1].need_checkpoint # (i # num_txns - 1)

\* the write sets of the transaction outputs
WriteSetsOf(to_commit) == [t \in 1 .. Len(to_commit) |-> to_commit[t].write_set]

\* calculate_for_transactions
CalculateForTransactions(execution_output, parent_state, known_state_checkpoints, checked) ==
    IF execution_output.is_block
       /\ ~ValidateInputForBlock(parent_state, execution_output.to_commit)
    THEN NoOutput("InvalidBlock", parent_state)
    ELSE CalculateImpl(parent_state,
                       execution_output.state_cache,
                       GetShardedStateUpdates(WriteSetsOf(execution_output.to_commit)),
                       GetLastCheckpointIndex(execution_output.to_commit),
                       execution_output.is_block,
                       known_state_checkpoints, checked)

\* calculate_for_write_sets_after_snapshot
CalculateForWriteSetsAfterSnapshot(parent_state, state_cache, last_checkpoint_index, write_sets, checked) ==
    CalculateImpl(parent_state, state_cache, GetShardedStateUpdates(write_sets),
                  last_checkpoint_index, FALSE, NoKnown, checked)

(* ------------------------------- inputs -------------------------------- *)

\* The write sets a transaction may produce.
WriteSetPool ==
    { <<>>,
      << W("a", Creation("v1")), W("b", Creation("v2")) >>,
      << W("a", Deletion), W("c", Creation("v1")) >>,
      << W("b", Deletion), W("a", Modification("v2")), W("b", Modification("v1")) >> }

\* One element of to_commit: the transaction's write set and need_checkpoint(txn, is_reconfig)
Txn(write_set, need_checkpoint) == [write_set |-> write_set, need_checkpoint |-> need_checkpoint]

\* The transactions of a batch: any write set without a checkpoint, and two
\* checkpoint transactions (one writes nothing, as a state checkpoint does)
TxnPool ==
    {Txn(ws, FALSE) : ws \in WriteSetPool}
    \cup {Txn(<<>>, TRUE), Txn(<< W("a", Creation("v1")), W("b", Creation("v2")) >>, TRUE)}

\* The read cache the executor filled while it ran the batch on parent_state.current
\* (state_cache.frozen_base is that tree: the assertion opening calculate_impl):
\* each key read maps to the value the tree held, in the key's shard. The version
\* read with the value is never looked at and is left out.
ReadCache(parent_state, read) ==
    [i \in Shards |->
        [k \in {x \in read : GetShardId(x) = i} |->
            IF k \in DOMAIN parent_state.current.kv THEN parent_state.current.kv[k] ELSE NoneV]]

\* Every key was read, or all but "a"
ReadSets == {Keys, Keys \ {"a"}}

\* A hash no tree has
BogusHash == {<<"?", "?">>}

\* The root hash of the tree at the last checkpoint of the batch, as the caller
\* knows it from elsewhere
ExpectedRoot(parent_state, write_sets, last_checkpoint_index) ==
    RootHash(MakeCheckpoint(parent_state.current,
                            UpdatesBeforeLastCheckpoint(GetShardedStateUpdates(write_sets),
                                                        last_checkpoint_index),
                            NewUntracked))

\* The known_state_checkpoints a caller may pass for a batch of n transactions
KnownPool(n, last_checkpoint_index, root) ==
    {NoKnown, SomeKnown([i \in 1 .. (n + 1) |-> NoHash])}
    \cup { SomeKnown([i \in 1 .. n |-> IF i = last_checkpoint_index + 1 THEN x ELSE y]) :
             x \in {NoHash, SomeHash(BogusHash), SomeHash(root)},
             y \in {NoHash, SomeHash(BogusHash)} }

\* How many more transactions fit below MaxVersion
Room(parent_state) ==
    LET left == MaxVersion + 1 - FirstVersion(parent_state)
    IN  IF left < 0 THEN 0 ELSE IF left > MaxTxns THEN MaxTxns ELSE left

(* ------------------------------- state --------------------------------- *)

VARIABLES
    build,      \* "checked": integer overflow panics; "wrapping": it wraps
    parent,     \* the StateDelta the next calculation starts from
    inp,        \* the arguments of the last call
    out,        \* what the last call returned
    run         \* the tasks of one run of the shard splitter and the range merger

vars == <<build, parent, inp, out, run>>

\* The state before any transaction: an empty tree, with or without usage tracking
GenesisState(usage) ==
    StateDelta(Tree(EmptyMap, usage), NoVersion, Tree(EmptyMap, usage), NoVersion,
               CreateEmptyShardedStateUpdates)

Input(entry, is_block, to_commit, last_checkpoint_index, known, read) ==
    [entry |-> entry, is_block |-> is_block, to_commit |-> to_commit,
     last_checkpoint_index |-> last_checkpoint_index, known |-> known, read |-> read]

\* No run of the tasks is followed.
NoRun ==
    [phase |-> "none", outputs |-> <<>>, index |-> NoIndex, pos |-> <<>>, updates |-> <<>>,
     returned |-> <<>>, vec |-> <<>>, before |-> CreateEmptyShardedStateUpdates,
     after |-> CreateEmptyShardedStateUpdates, done |-> {}]

Init ==
    /\ build \in {"checked", "wrapping"}
    /\ parent \in {GenesisState(NewUsage(0, 0)), GenesisState(NewUntracked)}
    /\ inp = Input("none", FALSE, <<>>, NoIndex, NoKnown, {})
    /\ out = NoOutput("None", parent)
    /\ run = NoRun

\* No call is outstanding: the caller has dealt with the last result.
Idle == out.status = "None"

\* What a caller of calculate_for_transactions varies besides the batch: a chunk
\* comes with any known hashes, a batch with an unread key with none, a block with
\* none or with hashes of no tree
CallPool(n, last_checkpoint_index, root) ==
    {[is_block |-> FALSE, known |-> kn, read |-> Keys] :
        kn \in KnownPool(n, last_checkpoint_index, root)}
    \cup {[is_block |-> FALSE, known |-> NoKnown, read |-> Keys \ {"a"}]}
    \cup {[is_block |-> TRUE, known |-> NoKnown, read |-> r] : r \in ReadSets}
    \cup {[is_block |-> TRUE, known |-> SomeKnown([i \in 1 .. n |-> SomeHash(BogusHash)]),
           read |-> Keys]}

\* A call of calculate_for_transactions on a block or a chunk
CalcForTransactions ==
    /\ Idle
    /\ \E n \in 0 .. Room(parent) :
         \E to_commit \in [1 .. n -> TxnPool] :
           LET lci == GetLastCheckpointIndex(to_commit)
               root == ExpectedRoot(parent, WriteSetsOf(to_commit), lci)
           IN  \E c \in CallPool(n, lci, root) :
                 /\ inp' = Input("transactions", c.is_block, to_commit, lci, c.known, c.read)
                 /\ out' = CalculateForTransactions(
                       [is_block |-> c.is_block, to_commit |-> to_commit,
                        state_cache |-> ReadCache(parent, c.read)],
                       parent, c.known, build = "checked")
    /\ UNCHANGED <<build, parent, run>>

\* A call of calculate_for_write_sets_after_snapshot
CalcForWriteSets ==
    /\ Idle
    /\ \E n \in 0 .. Room(parent), read \in ReadSets :
         \E write_sets \in [1 .. n -> WriteSetPool], lci \in {NoIndex} \cup (0 .. (n - 1)) :
           /\ inp' = Input("write_sets", FALSE,
                           [t \in 1 .. n |-> Txn(write_sets[t], FALSE)],
                           lci, NoKnown, read)
           /\ out' = CalculateForWriteSetsAfterSnapshot(
                 parent, ReadCache(parent, read), lci, write_sets, build = "checked")
    /\ UNCHANGED <<build, parent, run>>

\* The caller keeps the result state of a successful calculation as the next parent.
Commit ==
    /\ out.status = "Ok"
    /\ parent' = out.result_state
    /\ inp' = Input("none", FALSE, <<>>, NoIndex, NoKnown, {})
    /\ out' = NoOutput("None", parent')
    /\ UNCHANGED <<build, run>>

\* The caller drops a failed calculation: the parent state stays.
Discard ==
    /\ out.status \notin {"Ok", "None"}
    /\ inp' = Input("none", FALSE, <<>>, NoIndex, NoKnown, {})
    /\ out' = NoOutput("None", parent)
    /\ UNCHANGED <<build, parent, run>>

Next == CalcForTransactions \/ CalcForWriteSets \/ Commit \/ Discard

Spec == Init /\ [][Next]_vars

(* ------------- a parent whose usage disagrees with its tree ------------ *)
(* calculate_usage takes old_usage from parent_state.current.usage() and   *)
(* the old values from the read cache, which holds what the parent's tree  *)
(* contains: nothing in the calculator ties the one to the other. Here the *)
(* chain starts from a snapshot whose recorded usage may undercount the    *)
(* content of its tree.                                                    *)

\* The content of the snapshot's tree
SnapshotContents ==
    {EmptyMap, [k \in {"a"} |-> "v1"], [k \in {"a", "c"} |-> IF k = "a" THEN "v2" ELSE "v1"]}

\* The usage recorded with the snapshot
SnapshotUsages == {NewUsage(0, 0), NewUsage(1, 0), NewUsage(0, 2), NewUsage(1, 2)}

\* The state after a snapshot of version 0 was restored: base and current are the
\* snapshot's tree, nothing is pending
SnapshotState(kv, usage) ==
    StateDelta(Tree(kv, usage), 0, Tree(kv, usage), 0, CreateEmptyShardedStateUpdates)

InitUsage ==
    /\ build \in {"checked", "wrapping"}
    /\ parent \in {SnapshotState(kv, u) : kv \in SnapshotContents, u \in SnapshotUsages}
    /\ inp = Input("none", FALSE, <<>>, NoIndex, NoKnown, {})
    /\ out = NoOutput("None", parent)
    /\ run = NoRun

NextUsage == CalcForWriteSets \/ Commit \/ Discard

SpecUsage == InitUsage /\ [][NextUsage]_vars

(* ------------------- the parallel tasks of one run --------------------- *)
(* get_sharded_state_updates runs one task per transaction output           *)
(* (par_iter().map().collect()), calculate_updates one task per shard       *)
(* (par_iter_mut().enumerate().for_each()); the worker pool runs the tasks  *)
(* of a region in any order and interleaving, and a region ends when all    *)
(* of its tasks have.                                                       *)

\* A faulty variant: the tasks' results are gathered in the order the tasks end
CollectInCompletionOrder(updates, returned) ==
    [j \in 1 .. Len(returned) |-> updates[returned[j]]]

\* collect() of an indexed parallel iterator: the results in the outputs' order,
\* whatever the order the tasks ended in
Collect(updates, returned) == [t \in 1 .. Len(returned) |-> updates[t]]

\* the orders in which a HashMap may yield its entries
IterationOrders(m) ==
    {o \in [1 .. Cardinality(DOMAIN m) -> DOMAIN m] :
        \A x, y \in 1 .. Cardinality(DOMAIN m) : x # y => o[x] # o[y]}

RECURSIVE FlatMapOrders(_, _)
\* state_updates_vec.iter().flat_map(|hms| &hms[i]).collect::<Vec<_>>(): the entries of
\* shard i, transaction after transaction, each map in an order of its own
FlatMapOrders(state_updates_vec, i) ==
    IF state_updates_vec = <<>> THEN {<<>>}
    ELSE LET n == Len(state_updates_vec)
             m == state_updates_vec[n][i]
         IN  {front \o [j \in 1 .. Len(o) |-> [key |-> o[j], value |-> m[o[j]]]] :
                 front \in FlatMapOrders(SubSeq(state_updates_vec, 1, n - 1), i),
                 o \in IterationOrders(m)}

RECURSIVE ExtendFromVec(_, _)
\* per_shard_update.extend(vec): the entries are inserted in the vector's order
ExtendFromVec(per_shard_update, entries) ==
    IF entries = <<>> THEN per_shard_update
    ELSE ExtendFromVec(MapInsert(per_shard_update, Head(entries).key, Head(entries).value),
                       Tail(entries))

\* the slice calculate_updates is called on in this phase
MergeSlice ==
    IF run.phase = "merge_before" THEN SubSeq(run.vec, 1, run.index + 1)
    ELSE IF run.index # NoIndex THEN SubSeq(run.vec, run.index + 2, Len(run.vec))
    ELSE run.vec

\* the shards for which no transaction of the slice holds an entry: their tasks
\* extend an empty map with nothing
QuietShards == {i \in Shards : \A t \in 1 .. Len(MergeSlice) : MergeSlice[t][i] = EmptyMap}

\* The run starts on any batch and any last checkpoint index.
InitPar ==
    /\ build = "checked"
    /\ parent = GenesisState(NewUntracked)
    /\ inp = Input("none", FALSE, <<>>, NoIndex, NoKnown, {})
    /\ out = NoOutput("None", parent)
    /\ \E n \in 0 .. MaxTxns :
         \E outputs \in [1 .. n -> WriteSetPool], index \in {NoIndex} \cup (0 .. (n - 1)) :
            run = [phase |-> "split", outputs |-> outputs, index |-> index,
                   pos |-> [t \in 1 .. n |-> 0],
                   updates |-> [t \in 1 .. n |-> CreateEmptyShardedStateUpdates],
                   returned |-> <<>>, vec |-> <<>>,
                   before |-> CreateEmptyShardedStateUpdates,
                   after |-> CreateEmptyShardedStateUpdates, done |-> {}]

\* The task of output t inserts the next pair of its write set into its own updates.
SplitInsert ==
    /\ run.phase = "split"
    /\ \E t \in 1 .. Len(run.outputs) :
         /\ run.pos[t] < Len(run.outputs[t])
         /\ run' = [run EXCEPT !.pos[t] = @ + 1,
                               !.updates[t] = InsertWrite(@, run.outputs[t][run.pos[t] + 1])]
    /\ UNCHANGED <<build, parent, inp, out>>

\* The task of output t ends and returns its updates.
SplitReturn ==
    /\ run.phase = "split"
    /\ \E t \in 1 .. Len(run.outputs) :
         /\ run.pos[t] = Len(run.outputs[t])
         /\ \A j \in 1 .. Len(run.returned) : run.returned[j] # t
         /\ run' = [run EXCEPT !.returned = Append(@, t)]
    /\ UNCHANGED <<build, parent, inp, out>>

\* Every task has ended: collect() yields state_updates_vec, and calculate_impl
\* goes on to the slice before the last checkpoint, or to the whole vector.
SplitCollect ==
    /\ run.phase = "split"
    /\ Len(run.returned) = Len(run.outputs)
    /\ run' = [run EXCEPT !.vec = Collect(run.updates, run.returned),
                          !.phase = IF run.index # NoIndex THEN "merge_before"
                                    ELSE "merge_after"]
    /\ UNCHANGED <<build, parent, inp, out>>

\* what the task of shard i leaves in its slot, for one order of the entries
MergedShard(i, entries) == ExtendFromVec(EmptyMap, entries)

\* The task of one shard that has entries runs.
MergeShard ==
    /\ run.phase \in {"merge_before", "merge_after"}
    /\ \E i \in (Shards \ QuietShards) \ run.done :
         \E entries \in FlatMapOrders(MergeSlice, i) :
            run' = IF run.phase = "merge_before"
                   THEN [run EXCEPT !.before[i] = MergedShard(i, entries), !.done = @ \cup {i}]
                   ELSE [run EXCEPT !.after[i] = MergedShard(i, entries), !.done = @ \cup {i}]
    /\ UNCHANGED <<build, parent, inp, out>>

\* The tasks of the shards without entries run; they touch nothing the other tasks
\* read or write, so they are taken in one step.
MergeQuiet ==
    /\ run.phase \in {"merge_before", "merge_after"}
    /\ ~(QuietShards \subseteq run.done)
    /\ run' = [run EXCEPT !.done = @ \cup QuietShards]
    /\ UNCHANGED <<build, parent, inp, out>>

\* Every shard's task has ended: calculate_updates returns.
MergeJoin ==
    /\ run.phase \in {"merge_before", "merge_after"}
    /\ run.done = Shards
    /\ run' = [run EXCEPT !.done = {},
                          !.phase = IF run.phase = "merge_before" THEN "merge_after"
                                    ELSE "done"]
    /\ UNCHANGED <<build, parent, inp, out>>

NextPar == SplitInsert \/ SplitReturn \/ SplitCollect \/ MergeShard \/ MergeQuiet \/ MergeJoin

SpecPar == InitPar /\ [][NextPar]_vars

(* ------------------------ reference definitions ------------------------ *)
(* What the batch means, read off the write sets alone: the writes of a     *)
(* range of transactions as one sequence in transaction order.              *)

RECURSIVE FlatWrites(_, _, _)
\* the pairs of the write sets of transactions from .. to (1-based), in order
FlatWrites(to_commit, from, to) ==
    IF from > to THEN <<>>
    ELSE FlatWrites(to_commit, from, to - 1) \o to_commit[to].write_set

WrittenKeys(ws) == {ws[j].key : j \in 1 .. Len(ws)}

\* the last pair written to key k in ws
LastWrite(ws, k) ==
    LET at == {j \in 1 .. Len(ws) : ws[j].key = k}
    IN  ws[CHOOSE j \in at : \A x \in at : x <= j].op

\* the value a write leaves: NoneV for a deletion
Written(op) == IF op = Deletion THEN NoneV ELSE op.value

\* the map from each key written in ws to what its last write leaves
LastWriterWins(ws) == [k \in WrittenKeys(ws) |-> Written(LastWrite(ws, k))]

\* the same, as sharded updates
ShardedLastWriterWins(ws) ==
    [i \in Shards |-> [k \in {x \in WrittenKeys(ws) : GetShardId(x) = i} |->
                          Written(LastWrite(ws, k))]]

\* a key-value content after the writes of ws
ContentAfter(kv, ws) ==
    LET m == LastWriterWins(ws)
        gone == {k \in DOMAIN m : m[k] = NoneV}
    IN  [k \in ((DOMAIN kv) \cup (DOMAIN m)) \ gone |-> IF k \in DOMAIN m THEN m[k] ELSE kv[k]]

\* a key-value content with sharded updates on top
ContentWith(kv, updates) ==
    LET ks == UNION {DOMAIN updates[i] : i \in Shards}
        val(k) == updates[CHOOSE i \in Shards : k \in DOMAIN updates[i]][k]
        gone == {k \in ks : val(k) = NoneV}
    IN  [k \in ((DOMAIN kv) \cup ks) \ gone |-> IF k \in ks THEN val(k) ELSE kv[k]]

\* the value of key k in a content, NoneV when absent
ValueIn(kv, k) == IF k \in DOMAIN kv THEN kv[k] ELSE NoneV

\* every key stored in shard i has shard id i
ShardDisjoint(updates) ==
    \A i \in Shards : \A k \in DOMAIN updates[i] : GetShardId(k) = i

(* the last call *)
Returned == inp.entry # "none"

Ok == Returned /\ out.status = "Ok"

NumTxns == Len(inp.to_commit)

HasCheckpoint == inp.last_checkpoint_index # NoIndex

AllWrites == FlatWrites(inp.to_commit, 1, NumTxns)

WritesBefore == FlatWrites(inp.to_commit, 1, inp.last_checkpoint_index + 1)

WritesAfter == FlatWrites(inp.to_commit, inp.last_checkpoint_index + 2, NumTxns)

Tracked == parent.current.usage.tracked

(* -------------------------------- C1 ----------------------------------- *)

\* the contribution of key k whose last write in the batch is op and whose cached
\* pre-execution value is old
Contribution(k, op, old) ==
    IF op = Deletion
    THEN IF old # NoneV
         THEN [items |-> -1, bytes |-> -(KeySize(k) + ValueSize(old))]
         ELSE [items |-> 0, bytes |-> 0]
    ELSE IF old = NoneV
         THEN [items |-> 1, bytes |-> KeySize(k) + ValueSize(op.value)]
         ELSE [items |-> 0, bytes |-> ValueSize(op.value) - ValueSize(old)]

\* the pre-execution value the read cache of the last call holds for each key read
CachedValues ==
    LET cache == ReadCache(parent, inp.read)
    IN  [k \in inp.read |-> cache[GetShardId(k)][k]]

RECURSIVE SumContributions(_, _, _)
\* the sum of the contributions of the keys ks written in ws, kv their cached values
SumContributions(ks, ws, kv) ==
    IF ks = {} THEN [items |-> 0, bytes |-> 0]
    ELSE LET k == CHOOSE x \in ks : TRUE
             c == Contribution(k, LastWrite(ws, k), ValueIn(kv, k))
             r == SumContributions(ks \ {k}, ws, kv)
         IN  [items |-> c.items + r.items, bytes |-> c.bytes + r.bytes]

\* C1: with parent usage tracked and every written key read, the usage the
\* calculation returns is the parent's usage plus one contribution per distinct key
\* written in the batch, decided by the key's last write in the batch and its cached
\* pre-execution value: delete of an existing key (-1, -(key+old)), create of an
\* absent key (+1, key+new), overwrite (0, new-old), delete of an absent key (0, 0);
\* whatever the position of the last checkpoint.
C1_UsageCountsLastWrite ==
    (Ok /\ Tracked) =>
        LET d == SumContributions(WrittenKeys(AllWrites), AllWrites, CachedValues)
        IN  out.result_state.current.usage =
                NewUsage(parent.current.usage.items + d.items,
                         parent.current.usage.bytes + d.bytes)

\* A batch with a checkpoint in the middle that writes a key absent from the parent
\* before the checkpoint and deletes it after: the key adds nothing.
C1_Witness ==
    /\ Ok /\ Tracked
    /\ HasCheckpoint /\ inp.last_checkpoint_index < NumTxns - 1
    /\ \E k \in WrittenKeys(WritesBefore) \cap WrittenKeys(WritesAfter) :
          /\ k \notin DOMAIN parent.current.kv
          /\ LastWrite(WritesBefore, k) # Deletion
          /\ LastWrite(AllWrites, k) = Deletion
          /\ k \notin DOMAIN out.result_state.current.kv
          /\ out.result_state.current.usage.items =
                parent.current.usage.items + Cardinality(WrittenKeys(AllWrites) \ {k})

(* -------------------------------- C2 ----------------------------------- *)

\* what makes a block invalid, read off the arguments
BlockIsInvalid ==
    \/ NumTxns = 0
    \/ parent.base_version # parent.current_version
    \/ \E i \in Shards : DOMAIN parent.updates_since_base[i] # {}
    \/ \E t \in 1 .. (NumTxns - 1) : inp.to_commit[t].need_checkpoint
    \/ (NumTxns > 0 /\ ~inp.to_commit[NumTxns].need_checkpoint)

\* C2: calculate_for_transactions on a block fails with InvalidBlock exactly when
\* the batch is empty, or the parent's base and current versions differ, or a shard
\* of the parent's updates_since_base is not empty, or a transaction before the last
\* is a checkpoint, or the last is not; on a chunk none of this is checked.
C2_BlockFailsIffInvalid ==
    Returned =>
        IF inp.is_block
        THEN (out.status = "InvalidBlock") <=> BlockIsInvalid
        ELSE out.status # "InvalidBlock"

\* A well-formed block refused only because its parent is not at a checkpoint.
C2_Witness ==
    /\ Returned /\ inp.is_block /\ out.status = "InvalidBlock"
    /\ NumTxns = 2
    /\ ~inp.to_commit[1].need_checkpoint /\ inp.to_commit[2].need_checkpoint
    /\ parent.base_version # parent.current_version
    /\ \A i \in Shards : DOMAIN parent.updates_since_base[i] = {}

(* -------------------------------- C3 ----------------------------------- *)

\* the root hash the calculation computes for the last checkpoint of the batch
CheckpointRoot == ExpectedRoot(parent, WriteSetsOf(inp.to_commit), inp.last_checkpoint_index)

\* C3: with an expected-hash vector of the batch's length and a last checkpoint at
\* index i: a present element i that differs from the computed root makes the call
\* fail; a present and equal one is kept; an absent one becomes the computed root;
\* every other position is returned as given. Without a checkpoint the vector comes
\* back as given, and without a vector every entry is absent but the one at i.
C3_HashesReconciled ==
    LET i == inp.last_checkpoint_index + 1
        kn == inp.known.v
    IN  /\ (Returned /\ inp.known.some /\ Len(kn) = NumTxns) =>
              /\ (HasCheckpoint /\ kn[i].some /\ kn[i].h # CheckpointRoot) => ~Ok
              /\ Ok => out.state_checkpoint_hashes =
                          [j \in 1 .. NumTxns |->
                              IF HasCheckpoint /\ j = i /\ ~kn[j].some
                              THEN SomeHash(CheckpointRoot) ELSE kn[j]]
        /\ (Ok /\ ~inp.known.some) =>
              out.state_checkpoint_hashes =
                  [j \in 1 .. NumTxns |->
                      IF HasCheckpoint /\ j = i THEN SomeHash(CheckpointRoot) ELSE NoHash]

\* A chunk with two checkpoints: the hash known for the last one is the computed
\* one, the hash given for the earlier one is not the hash of any tree, and the
\* vector comes back as given.
C3_Witness ==
    /\ Ok /\ inp.known.some /\ HasCheckpoint
    /\ inp.known.v[inp.last_checkpoint_index + 1] = SomeHash(CheckpointRoot)
    /\ \E j \in 1 .. inp.last_checkpoint_index :
          /\ inp.to_commit[j].need_checkpoint
          /\ inp.known.v[j] = SomeHash(BogusHash)
    /\ out.state_checkpoint_hashes = inp.known.v

(* -------------------------------- C4 ----------------------------------- *)

\* the version of the first transaction of the batch, a u64
RefFirstVersion ==
    IF parent.current_version = NoVersion THEN 0 ELSE (parent.current_version + 1) % Modulus

\* C4: with a last checkpoint at index i the result's base version is
\* first_version + i, its base tree holds the parent's current content with the
\* writes of transactions 0..i, its updates_since_base are exactly the merged writes
\* of transactions i+1..N-1, and updates_before_last_checkpoint is present; when
\* i = N-1 the current tree is the checkpoint tree, base and current version are
\* equal and every shard of updates_since_base is empty.
C4_CheckpointResult ==
    (Ok /\ HasCheckpoint) =>
        LET r == out.result_state
        IN  /\ r.base_version = RefFirstVersion + inp.last_checkpoint_index
            /\ r.base.kv = ContentAfter(parent.current.kv, WritesBefore)
            /\ r.updates_since_base = ShardedLastWriterWins(WritesAfter)
            /\ out.updates_before_last_checkpoint.some
            /\ (inp.last_checkpoint_index = NumTxns - 1) =>
                  /\ r.current = r.base
                  /\ r.base_version = r.current_version
                  /\ \A s \in Shards : DOMAIN r.updates_since_base[s] = {}

\* A checkpoint in the middle of a chunk whose parent has pending updates: a key
\* pending in the parent and not written after the checkpoint is pending no more.
C4_Witness ==
    /\ Ok /\ HasCheckpoint /\ inp.last_checkpoint_index < NumTxns - 1
    /\ WritesAfter # <<>>
    /\ \E k \in Keys :
          /\ k \in DOMAIN parent.updates_since_base[GetShardId(k)]
          /\ k \notin DOMAIN out.result_state.updates_since_base[GetShardId(k)]

(* -------------------------------- C5 ----------------------------------- *)

\* C5: without a checkpoint in the batch the result keeps the parent's base tree
\* and base version, its updates_since_base are the parent's extended per shard by
\* the batch's merged writes (the batch wins on a key of both), and
\* updates_before_last_checkpoint is absent.
C5_NoCheckpointKeepsBase ==
    (Ok /\ ~HasCheckpoint) =>
        LET r == out.result_state
            batch == ShardedLastWriterWins(AllWrites)
        IN  /\ r.base = parent.base
            /\ r.base_version = parent.base_version
            /\ r.updates_since_base =
                  [s \in Shards |->
                      [k \in (DOMAIN parent.updates_since_base[s]) \cup (DOMAIN batch[s]) |->
                          IF k \in DOMAIN batch[s] THEN batch[s][k]
                          ELSE parent.updates_since_base[s][k]]]
            /\ ~out.updates_before_last_checkpoint.some

\* A chunk without checkpoint on a parent whose current tree is ahead of its base,
\* writing a key the parent has a different pending update for.
C5_Witness ==
    /\ Ok /\ ~HasCheckpoint
    /\ parent.base.kv # parent.current.kv
    /\ out.result_state.base.kv # parent.current.kv
    /\ \E k \in WrittenKeys(AllWrites) :
          /\ k \in DOMAIN parent.updates_since_base[GetShardId(k)]
          /\ parent.updates_since_base[GetShardId(k)][k] # Written(LastWrite(AllWrites, k))
          /\ out.result_state.updates_since_base[GetShardId(k)][k] = Written(LastWrite(AllWrites, k))

(* -------------------------------- C6 ----------------------------------- *)

\* the call is one C6 speaks of and nothing but its arithmetic can stop it
C6_Applies ==
    /\ Returned
    /\ \/ inp.entry = "write_sets"
       \/ (inp.entry = "transactions" /\ inp.is_block /\ NumTxns >= 1)
    /\ out.status \notin {"InvalidBlock", "MissingRead", "HashCountMismatch", "CheckpointMismatch"}

\* C6: for every batch of N transactions (N >= 1 in a block, N >= 0 in a chunk given
\* to calculate_for_write_sets_after_snapshot) the calculation completes, with
\* current_version = first_version + N - 1 where first_version is the parent's
\* current version plus one (0 without one), nothing under- or overflowing, and
\* the base version first_version + last_checkpoint_index, or the parent's.
C6_VersionsNeverOverflow ==
    C6_Applies =>
        LET first_version ==
                IF parent.current_version = NoVersion THEN 0 ELSE parent.current_version + 1
        IN  /\ out.status = "Ok"
            /\ first_version + NumTxns - 1 >= 0
            /\ out.result_state.current_version = first_version + NumTxns - 1
            /\ out.result_state.base_version =
                  IF HasCheckpoint THEN first_version + inp.last_checkpoint_index
                  ELSE parent.base_version

(* -------------------------------- C7 ----------------------------------- *)

\* C7: in every ShardedStateUpdates produced (each transaction's entry of
\* state_updates_vec, updates_before_last_checkpoint, the result's
\* updates_since_base) every key of shard i has shard id i, along any chain of
\* calculations.
C7_ShardsDisjoint ==
    /\ ShardDisjoint(parent.updates_since_base)
    /\ Ok =>
          /\ \A t \in 1 .. Len(out.state_updates_vec) : ShardDisjoint(out.state_updates_vec[t])
          /\ ShardDisjoint(out.updates_before_last_checkpoint.v)
          /\ ShardDisjoint(out.result_state.updates_since_base)

\* Two keys of one shard before a checkpoint and keys of two shards after it, on a
\* parent with pending updates.
C7_Witness ==
    /\ Ok /\ HasCheckpoint
    /\ \E s \in Shards : DOMAIN parent.updates_since_base[s] # {}
    /\ Cardinality({s \in Shards : DOMAIN out.result_state.updates_since_base[s] # {}}) = 2
    /\ \E s \in Shards : Cardinality(DOMAIN out.updates_before_last_checkpoint.v[s]) = 2

(* -------------------------------- C8 ----------------------------------- *)

\* C8: when the parent's current tree carries untracked usage, no call fails for a
\* key missing from the read cache and the result's current tree carries untracked
\* usage, whatever the batch and the checkpoint's position; so once the chain's
\* state is untracked it stays untracked.
C8_UntrackedStaysUntracked ==
    /\ [](((Returned /\ ~Tracked) =>
            /\ out.status # "MissingRead"
            /\ (Ok => ~out.result_state.current.usage.tracked)))
    /\ [][(~Tracked) => (~parent'.current.usage.tracked)]_vars

\* An untracked parent, a batch writing key "a" that was never read, a checkpoint in
\* the middle: the call succeeds.
C8_Witness ==
    /\ Ok /\ ~Tracked
    /\ "a" \notin inp.read /\ "a" \in WrittenKeys(WritesBefore) \cap WrittenKeys(WritesAfter)
    /\ HasCheckpoint /\ inp.last_checkpoint_index < NumTxns - 1
    /\ out.result_state.current.usage = NewUntracked

(* -------------------------------- C9 ----------------------------------- *)

\* the current tree holds the base tree's content with updates_since_base on top
DeltaConsistent(state) ==
    state.current.kv = ContentWith(state.base.kv, state.updates_since_base)

\* C9: along any chain of successful calculations, whatever the checkpoints, the
\* content of the current tree is the content of the base tree with
\* updates_since_base applied.
C9_DeltaConsistent ==
    /\ DeltaConsistent(parent)
    /\ Ok => DeltaConsistent(out.result_state)

\* A chunk without checkpoint, after a chain that had one, on a parent with pending
\* updates: the result's base and current content differ.
C9_Witness ==
    /\ Ok /\ ~HasCheckpoint /\ AllWrites # <<>>
    /\ parent.base_version # NoVersion
    /\ \E s \in Shards : DOMAIN parent.updates_since_base[s] # {}
    /\ out.result_state.updates_since_base # parent.updates_since_base
    /\ out.result_state.base.kv # out.result_state.current.kv
    /\ \E k \in DOMAIN out.result_state.base.kv : k \notin DOMAIN out.result_state.current.kv

(* -------------------------------- C10 ---------------------------------- *)

\* the transactions of the run, as a batch
RunBatch == [t \in 1 .. Len(run.outputs) |-> Txn(run.outputs[t], FALSE)]

\* the writes of the run's transactions up to its last checkpoint, and after it
RunWritesBefore == FlatWrites(RunBatch, 1, run.index + 1)

RunWritesAfter == FlatWrites(RunBatch, run.index + 2, Len(run.outputs))

\* C10: whatever the interleaving and the order in which the split tasks and the
\* merge tasks end, each key of an aggregate built from a range of transactions
\* maps to what the last write to it leaves, in the range's transaction order and,
\* within a transaction, its write set's order; so every run on the same input
\* ends with the same aggregates, those of the sequential calculation.
C10_AggregatesAreLastWriterWins ==
    /\ (run.phase \in {"merge_before", "merge_after", "done"}) =>
          run.vec = GetShardedStateUpdates(run.outputs)
    /\ (run.phase \in {"merge_after", "done"}) =>
          run.before = ShardedLastWriterWins(RunWritesBefore)
    /\ (run.phase = "done") =>
          /\ run.after = ShardedLastWriterWins(RunWritesAfter)
          /\ run.before = UpdatesBeforeLastCheckpoint(GetShardedStateUpdates(run.outputs), run.index)
          /\ run.after = UpdatesAfterLastCheckpoint(GetShardedStateUpdates(run.outputs), run.index)

\* A run in which the later transaction's task ended first, both write key "a" with
\* different values before the checkpoint, and a write set wrote a key twice.
C10_Witness ==
    /\ run.phase = "done"
    /\ Len(run.outputs) = 2 /\ run.index = 1
    /\ run.returned = <<2, 1>>
    /\ "a" \in WrittenKeys(run.outputs[1]) \cap WrittenKeys(run.outputs[2])
    /\ LastWrite(run.outputs[1], "a") # LastWrite(run.outputs[2], "a")
    /\ run.before[GetShardId("a")]["a"] = Written(LastWrite(run.outputs[2], "a"))
    /\ \E x, y \in 1 .. Len(run.outputs[2]) : x # y /\ run.outputs[2][x].key = run.outputs[2][y].key

(* -------------------------------- C11 ---------------------------------- *)

\* the parent's usage plus the signed delta of the last call, as exact integers
SignedUsage ==
    LET d == SumContributions(WrittenKeys(AllWrites), AllWrites, CachedValues)
    IN  [items |-> parent.current.usage.items + d.items,
         bytes |-> parent.current.usage.bytes + d.bytes]

\* calculate_usage ran to its end on tracked usage, and the parent's items or bytes
\* plus the signed delta is negative
C11_Applies ==
    /\ Returned /\ Tracked
    /\ WrittenKeys(AllWrites) \subseteq inp.read
    /\ (SignedUsage.items < 0 \/ SignedUsage.bytes < 0)

\* C11: when the parent's items (or bytes) plus the signed delta is negative,
\* calculate_usage panics or saturates at 0: the calculation never returns a usage
\* whose items or bytes is the negative number wrapped around modulo the word size.
C11_NegativeUsageNeverWraps ==
    (C11_Applies /\ out.status = "Ok") =>
        LET usage == out.result_state.current.usage
        IN  /\ (SignedUsage.items < 0) =>
                  (usage.items = 0 /\ usage.items # SignedUsage.items + Modulus)
            /\ (SignedUsage.bytes < 0) =>
                  (usage.bytes = 0 /\ usage.bytes # SignedUsage.bytes + Modulus)

====
